---- MODULE Spec2Model ----
(***************************************************************************)
(* Model of the quantitative risk engine of portfolio-risk-var:            *)
(*   src/src/portfolio.py     Portfolio                                    *)
(*   src/src/risk_metrics.py  RiskCalculator                               *)
(*   src/src/backtesting.py   VaRBacktester                                *)
(*                                                                         *)
(* Numbers.  The program computes in IEEE doubles.  The model computes in  *)
(* exact rationals [n, d] (d > 0, lowest terms) extended with the three    *)
(* non-finite doubles: NaN = 0/0, +inf = 1/0, -inf = -1/0.  Rounding error *)
(* of doubles is therefore outside the model.  The transcendental library  *)
(* functions (sqrt, log, norm.ppf, norm.pdf, chi2.cdf) are tabulated or    *)
(* rounded to a fixed number of decimals; every such place is marked.      *)
(*                                                                         *)
(* A pandas Series is a record [index, values] of two sequences of equal   *)
(* length; dates are the integers 1, 2, ...                                *)
(*                                                                         *)
(* A call returns a record [exc, val]: exc = "none" and the value, or the  *)
(* name of the exception that the call raises.                             *)
(***************************************************************************)
EXTENDS Integers, Sequences, FiniteSets, TLC

(***************************************************************************)
(* Bounds of the model.                                                    *)
(***************************************************************************)
\* longest return series handed to a RiskCalculator or a VaRBacktester
MaxLen == 3
\* longest return series of a calculator whose Monte Carlo methods are called
MaxMCLen == 2
\* largest n_simulations; NSimDefault stands for the default of 10000
MaxSims == 2
NSimDefault == 2
\* number of states of the ambient random generator
RngMod == 3
\* most asset columns of a returns DataFrame
MaxAssets == 2

\* per-period returns, in percent
ReturnValues == {-3, -1, 0, 2}
\* confidence levels, in percent: valid ones, the two ends, one beyond
ConfPercents == {0, 50, 80, 95, 100, 120}
\* portfolio values handed to get_all_metrics
PortfolioValues == {1, 1000}

(***************************************************************************)
(* Extended rational arithmetic (the model of float64).                    *)
(***************************************************************************)
Abs(x) == IF x < 0 THEN -x ELSE x

RECURSIVE Gcd(_, _)
Gcd(a, b) == IF b = 0 THEN a ELSE Gcd(b, a % b)

NaN == [n |-> 0, d |-> 0]
PosInf == [n |-> 1, d |-> 0]
NegInf == [n |-> -1, d |-> 0]

\* the rational n/d in lowest terms; d = 0 gives NaN or an infinity, as x/0.0
Rat(n, d) ==
    IF d = 0 THEN [n |-> (IF n > 0 THEN 1 ELSE IF n < 0 THEN -1 ELSE 0), d |-> 0]
    ELSE LET g == Gcd(Abs(n), Abs(d))
             s == IF d < 0 THEN -1 ELSE 1
         IN [n |-> s * (n \div g), d |-> s * (d \div g)]

Num(k) == [n |-> k, d |-> 1]

IsNaN(x) == x.d = 0 /\ x.n = 0
IsFinite(x) == x.d > 0

FNeg(x) == [n |-> -x.n, d |-> x.d]

FAdd(x, y) ==
    IF IsNaN(x) \/ IsNaN(y) THEN NaN
    ELSE IF x.d = 0 /\ y.d = 0 THEN (IF x.n = y.n THEN x ELSE NaN)
    ELSE IF x.d = 0 THEN x
    ELSE IF y.d = 0 THEN y
    ELSE Rat(x.n * y.d + y.n * x.d, x.d * y.d)

FSub(x, y) == FAdd(x, FNeg(y))

Sign(k) == IF k > 0 THEN 1 ELSE IF k < 0 THEN -1 ELSE 0

FMul(x, y) ==
    IF IsNaN(x) \/ IsNaN(y) THEN NaN
    ELSE IF x.d = 0 \/ y.d = 0
         THEN (IF x.n = 0 \/ y.n = 0 THEN NaN
               ELSE [n |-> Sign(x.n) * Sign(y.n), d |-> 0])
    ELSE Rat(x.n * y.n, x.d * y.d)

\* numpy float division: x/0 is an infinity or NaN, never an exception
FDiv(x, y) ==
    IF IsNaN(x) \/ IsNaN(y) THEN NaN
    ELSE IF y.d = 0 THEN (IF x.d = 0 THEN NaN ELSE Num(0))
    ELSE IF x.d = 0 THEN [n |-> x.n * (IF y.n < 0 THEN -1 ELSE 1), d |-> 0]
    ELSE IF y.n = 0 THEN Rat(x.n, 0)
    ELSE Rat(x.n * y.d, x.d * y.n)

\* IEEE comparisons: every comparison with NaN is false
FLess(x, y) ==
    IF IsNaN(x) \/ IsNaN(y) THEN FALSE
    ELSE IF x.d = 0 /\ y.d = 0 THEN x.n < y.n
    ELSE IF x.d = 0 THEN x.n < 0
    ELSE IF y.d = 0 THEN y.n > 0
    ELSE x.n * y.d < y.n * x.d

FGreater(x, y) == FLess(y, x)
FEq(x, y) == ~IsNaN(x) /\ ~IsNaN(y) /\ x = y
FLeq(x, y) == FLess(x, y) \/ FEq(x, y)
FGeq(x, y) == FLeq(y, x)

\* floor of a finite rational
Floor(x) == x.n \div x.d

\* largest r with r*r <= k
RECURSIVE IsqrtFrom(_, _)
IsqrtFrom(k, r) == IF (r + 1) * (r + 1) > k THEN r ELSE IsqrtFrom(k, r + 1)

\* np.sqrt, rounded down to one decimal
FSqrt(x) ==
    IF IsNaN(x) THEN NaN
    ELSE IF x.d = 0 THEN (IF x.n > 0 THEN PosInf ELSE NaN)
    ELSE IF x.n < 0 THEN NaN
    ELSE Rat(IsqrtFrom((100 * x.n) \div x.d, 0), 10)

(***************************************************************************)
(* Sequences, Python slices, pandas Series.                                *)
(***************************************************************************)
Min(a, b) == IF a < b THEN a ELSE b

\* s[a:b] of Python for 0 <= a, 0 <= b (0-based, b exclusive, clipped)
PySlice(s, a, b) == SubSeq(s, a + 1, Min(b, Len(s)))

\* a pandas Series
Series(index, values) == [index |-> index, values |-> values]
SeriesLen(s) == Len(s.values)

\* series[a:b]: positional slice, the labels travel with the values
SeriesSlice(s, a, b) == Series(PySlice(s.index, a, b), PySlice(s.values, a, b))

RECURSIVE FSum(_)
FSum(s) == IF s = <<>> THEN Num(0) ELSE FAdd(Head(s), FSum(Tail(s)))

\* Series.mean(): NaN for an empty series
Mean(s) == IF s = <<>> THEN NaN ELSE FDiv(FSum(s), Num(Len(s)))

RECURSIVE SumSqDev(_, _)
SumSqDev(s, m) ==
    IF s = <<>> THEN Num(0)
    ELSE FAdd(FMul(FSub(Head(s), m), FSub(Head(s), m)), SumSqDev(Tail(s), m))

\* Series.std(): sample standard deviation (ddof = 1), NaN below two values
Std(s) ==
    IF Len(s) < 2 THEN NaN
    ELSE FSqrt(FDiv(SumSqDev(s, Mean(s)), Num(Len(s) - 1)))

\* insertion into an ascending sequence
RECURSIVE Insert(_, _)
Insert(x, s) ==
    IF s = <<>> THEN <<x>>
    ELSE IF FLeq(x, Head(s)) THEN <<x>> \o s
    ELSE <<Head(s)>> \o Insert(x, Tail(s))

RECURSIVE Sort(_)
Sort(s) == IF s = <<>> THEN <<>> ELSE Insert(Head(s), Sort(Tail(s)))

Ok(v) == [exc |-> "none", val |-> v]
Raise(e) == [exc |-> e, val |-> NaN]

\* np.percentile(a, q), default linear interpolation between order statistics
Percentile(a, q) ==
    IF IsNaN(q) \/ FLess(q, Num(0)) \/ FGreater(q, Num(100)) THEN Raise("ValueError")
    ELSE IF a = <<>> THEN Raise("IndexError")
    ELSE IF \E k \in 1..Len(a) : IsNaN(a[k]) THEN Ok(NaN)
    ELSE LET s == Sort(a)
             virt == FDiv(FMul(Num(Len(a) - 1), q), Num(100))
             lo == Floor(virt)
             hi == Min(lo + 1, Len(a) - 1)
             frac == FSub(virt, Num(lo))
         IN Ok(FAdd(s[lo + 1], FMul(frac, FSub(s[hi + 1], s[lo + 1]))))

(***************************************************************************)
(* Library functions, tabulated to three decimals.                         *)
(***************************************************************************)
\* scipy.stats.norm.ppf(p)
NormPpf(p) ==
    IF IsNaN(p) \/ FLess(p, Num(0)) \/ FGreater(p, Num(1)) THEN NaN
    ELSE IF p = Num(0) THEN NegInf
    ELSE IF p = Num(1) THEN PosInf
    ELSE CASE p = Rat(1, 100) -> Rat(-2326, 1000)
           [] p = Rat(5, 100) -> Rat(-1645, 1000)
           [] p = Rat(10, 100) -> Rat(-1282, 1000)
           [] p = Rat(20, 100) -> Rat(-842, 1000)
           [] p = Rat(25, 100) -> Rat(-674, 1000)
           [] p = Rat(50, 100) -> Num(0)
           [] p = Rat(75, 100) -> Rat(674, 1000)
           [] p = Rat(80, 100) -> Rat(842, 1000)
           [] p = Rat(90, 100) -> Rat(1282, 1000)
           [] p = Rat(95, 100) -> Rat(1645, 1000)
           [] p = Rat(99, 100) -> Rat(2326, 1000)

\* scipy.stats.norm.pdf(z) at the tabulated quantiles
NormPdf(z) ==
    IF IsNaN(z) THEN NaN
    ELSE IF z.d = 0 THEN Num(0)
    ELSE CASE Abs(z.n) * 1000 = 2326 * z.d -> Rat(27, 1000)
           [] Abs(z.n) * 1000 = 1645 * z.d -> Rat(103, 1000)
           [] Abs(z.n) * 1000 = 1282 * z.d -> Rat(175, 1000)
           [] Abs(z.n) * 1000 = 842 * z.d -> Rat(280, 1000)
           [] Abs(z.n) * 1000 = 674 * z.d -> Rat(318, 1000)
           [] z.n = 0 -> Rat(399, 1000)

\* 1000 * ln(k) for k = 1..20
LnMilli == <<0, 693, 1099, 1386, 1609, 1792, 1946, 2079, 2197, 2303,
             2398, 2485, 2565, 2639, 2708, 2773, 2833, 2890, 2944, 2996>>

\* np.log(x): -inf at 0, NaN below 0, ln(n) - ln(d) for the rational n/d
Ln(x) ==
    IF IsNaN(x) THEN NaN
    ELSE IF x.d = 0 THEN (IF x.n > 0 THEN PosInf ELSE NaN)
    ELSE IF x.n < 0 THEN NaN
    ELSE IF x.n = 0 THEN NegInf
    ELSE Rat(LnMilli[x.n] - LnMilli[x.d], 1000)

\* scipy.stats.chi2.cdf(x, df=1): the tabulated quantile at or above x
Chi2Cdf(x) ==
    IF IsNaN(x) THEN NaN
    ELSE IF FLeq(x, Num(0)) THEN Num(0)
    ELSE IF FLeq(x, Rat(102, 1000)) THEN Rat(25, 100)
    ELSE IF FLeq(x, Rat(455, 1000)) THEN Rat(50, 100)
    ELSE IF FLeq(x, Rat(1323, 1000)) THEN Rat(75, 100)
    ELSE IF FLeq(x, Rat(2706, 1000)) THEN Rat(90, 100)
    ELSE IF FLeq(x, Rat(3841, 1000)) THEN Rat(95, 100)
    ELSE IF FLeq(x, Rat(5024, 1000)) THEN Rat(975, 1000)
    ELSE IF FLeq(x, Rat(6635, 1000)) THEN Rat(99, 100)
    ELSE IF FLeq(x, Rat(10828, 1000)) THEN Rat(999, 1000)
    ELSE Num(1)

(***************************************************************************)
(* numpy's global random generator.  Its state is one of RngMod values;    *)
(* every normal variate drawn advances it by one step.  The variate is a   *)
(* function of the state alone, as in any pseudo-random generator.         *)
(***************************************************************************)
RngStates == 0..(RngMod - 1)
RngStep(s) == (s + 1) % RngMod
\* the standard-normal variate produced when the generator leaves state s
RngVariate(s) == Num((s % 3) - 1)

\* n variates mu + sigma*z drawn one after the other from state s
RECURSIVE RngDraw(_, _, _, _)
RngDraw(mu, sigma, n, s) ==
    IF n = 0 THEN <<>>
    ELSE <<FAdd(mu, FMul(sigma, RngVariate(s)))>> \o RngDraw(mu, sigma, n - 1, RngStep(s))

RECURSIVE RngAdvance(_, _)
RngAdvance(s, n) == IF n = 0 THEN s ELSE RngAdvance(RngStep(s), n - 1)

\* np.random.normal(mu, sigma, n) drawn from generator state s:
\* the n variates and the state the generator is left in
random_normal(mu, sigma, n, s) ==
    IF FLess(sigma, Num(0)) THEN [exc |-> "ValueError", val |-> <<>>, rng |-> s]
    ELSE [exc |-> "none", val |-> RngDraw(mu, sigma, n, s), rng |-> RngAdvance(s, n)]

(***************************************************************************)
(* Portfolio (src/src/portfolio.py).  A returns DataFrame is a record      *)
(* [columns, rows]: the asset names and one sequence of returns per date.  *)
(* The weights argument is [given, w]: given = FALSE stands for None.      *)
(***************************************************************************)
FAbs(x) == IF x.n < 0 THEN FNeg(x) ELSE x

\* np.isclose(a, b) with its defaults: |a - b| <= atol + rtol * |b|, where
\* atol = 1e-08 and rtol = 1e-05 = 1000 * atol
IsClose(a, b) ==
    FLeq(FAbs(FSub(a, b)),
         FMul(Rat(1, 100000000), FAdd(Num(1), FMul(Num(1000), FAbs(b)))))

\* np.ones(n) / n
Uniform(n) == [k \in 1..n |-> FDiv(Num(1), Num(n))]

\* Portfolio.__init__: the object, or the exception of the failed assert
\* together with the object as far as it was set up
Portfolio(returns, weights) ==
    LET assets == returns.columns
        n_assets == Len(assets)
        self == [returns |-> returns, assets |-> assets, n_assets |-> n_assets,
                 weights |-> IF weights.given THEN weights.w ELSE Uniform(n_assets)]
    IN IF weights.given /\ ~IsClose(FSum(self.weights), Num(1))
         THEN [exc |-> "AssertionError", val |-> self]
       ELSE [exc |-> "none", val |-> self]

\* the dot product of one row with the weights
RECURSIVE Dot(_, _)
Dot(row, w) ==
    IF row = <<>> THEN Num(0)
    ELSE FAdd(FMul(Head(row), Head(w)), Dot(Tail(row), Tail(w)))

\* (self.returns * self.weights).sum(axis=1): a frame times a 1-d array
\* needs one entry per column
portfolio_returns(self) ==
    IF Len(self.weights) # Len(self.returns.columns) THEN [exc |-> "ValueError", val |-> <<>>]
    ELSE [exc |-> "none",
          val |-> [t \in 1..Len(self.returns.rows) |->
                      Dot(self.returns.rows[t], self.weights)]]

(***************************************************************************)
(* RiskCalculator (src/src/risk_metrics.py).                               *)
(***************************************************************************)
RiskCalculator(returns, confidence_level) ==
    [returns |-> returns,
     confidence_level |-> confidence_level,
     alpha |-> FSub(Num(1), confidence_level)]

\* variant: the observations strictly below x
SelectLess(s, x) == SelectSeq(s, LAMBDA v : FLess(v, x))

\* s[s <= x]: the observations at or below x
SelectLeq(s, x) == SelectSeq(s, LAMBDA v : FLeq(v, x))

historical_var(self) ==
    LET var == Percentile(self.returns.values, FMul(self.alpha, Num(100)))
    IN IF var.exc # "none" THEN var ELSE Ok(FNeg(var.val))

\* variant: the tail is taken at or below the positive loss, not the signed
\* threshold
historical_cvar_unsigned(self) ==
    LET hv == historical_var(self)
    IN IF hv.exc # "none" THEN hv
       ELSE Ok(FNeg(Mean(SelectLeq(self.returns.values, hv.val))))

historical_cvar(self) ==
    LET hv == historical_var(self)
    IN IF hv.exc # "none" THEN hv
       ELSE LET var == FNeg(hv.val)
                cvar == Mean(SelectLeq(self.returns.values, var))
            IN Ok(FNeg(cvar))

parametric_var(self) ==
    LET mu == Mean(self.returns.values)
        sigma == Std(self.returns.values)
        z_score == NormPpf(self.alpha)
    IN Ok(FNeg(FAdd(mu, FMul(sigma, z_score))))

parametric_cvar(self) ==
    LET mu == Mean(self.returns.values)
        sigma == Std(self.returns.values)
        z_score == NormPpf(self.alpha)
    IN Ok(FNeg(FSub(mu, FDiv(FMul(sigma, NormPdf(z_score)), self.alpha))))

\* the Monte Carlo methods read and advance the global generator: they
\* return [exc, val, rng], rng being the state the generator is left in
monte_carlo_var(self, n_simulations, rng) ==
    LET mu == Mean(self.returns.values)
        sigma == Std(self.returns.values)
        sim == random_normal(mu, sigma, n_simulations, rng)
        var == Percentile(sim.val, FMul(self.alpha, Num(100)))
    IN IF sim.exc # "none" THEN [exc |-> sim.exc, val |-> NaN, rng |-> sim.rng]
       ELSE IF var.exc # "none" THEN [exc |-> var.exc, val |-> NaN, rng |-> sim.rng]
       ELSE [exc |-> "none", val |-> FNeg(var.val), rng |-> sim.rng]

monte_carlo_cvar(self, n_simulations, rng) ==
    LET mu == Mean(self.returns.values)
        sigma == Std(self.returns.values)
        sim == random_normal(mu, sigma, n_simulations, rng)
        var == Percentile(sim.val, FMul(self.alpha, Num(100)))
    IN IF sim.exc # "none" THEN [exc |-> sim.exc, val |-> NaN, rng |-> sim.rng]
       ELSE IF var.exc # "none" THEN [exc |-> var.exc, val |-> NaN, rng |-> sim.rng]
       ELSE [exc |-> "none",
             val |-> FNeg(Mean(SelectLeq(sim.val, var.val))),
             rng |-> sim.rng]

MetricKeys == {"Historical VaR", "Historical CVaR", "Parametric VaR",
               "Parametric CVaR", "Monte Carlo VaR", "Monte Carlo CVaR"}

NoMetrics == [metrics |-> [k \in MetricKeys |-> NaN],
              dollar_metrics |-> [k \in MetricKeys |-> NaN]]

\* the metrics dict of get_all_metrics, from its six values
metrics_dict(hv, hc, pv, pc, mv, mc) ==
    ("Historical VaR" :> hv) @@ ("Historical CVaR" :> hc)
    @@ ("Parametric VaR" :> pv) @@ ("Parametric CVaR" :> pc)
    @@ ("Monte Carlo VaR" :> mv) @@ ("Monte Carlo CVaR" :> mc)

\* variant: the dollar mapping repeats the metrics, unscaled
with_dollar_metrics_unscaled(metrics, portfolio_value) ==
    [metrics |-> metrics, dollar_metrics |-> metrics]

\* {k: v * portfolio_value for k, v in metrics.items()}, returned with metrics
with_dollar_metrics(metrics, portfolio_value) ==
    [metrics |-> metrics,
     dollar_metrics |-> [k \in DOMAIN metrics |->
                            FMul(metrics[k], Num(portfolio_value))]]

\* the dict literal evaluates its six values in order; the first exception
\* propagates, the generator keeping whatever was drawn before it
metrics_result(hv, hc, pv, pc, mv, mc, portfolio_value, rng) ==
    IF hv.exc # "none" THEN [exc |-> hv.exc, val |-> NoMetrics, rng |-> rng]
    ELSE IF hc.exc # "none" THEN [exc |-> hc.exc, val |-> NoMetrics, rng |-> rng]
    ELSE IF pv.exc # "none" THEN [exc |-> pv.exc, val |-> NoMetrics, rng |-> rng]
    ELSE IF pc.exc # "none" THEN [exc |-> pc.exc, val |-> NoMetrics, rng |-> rng]
    ELSE IF mv.exc # "none" THEN [exc |-> mv.exc, val |-> NoMetrics, rng |-> mv.rng]
    ELSE IF mc.exc # "none" THEN [exc |-> mc.exc, val |-> NoMetrics, rng |-> mc.rng]
    ELSE [exc |-> "none",
          val |-> with_dollar_metrics(
                      metrics_dict(hv.val, hc.val, pv.val, pc.val, mv.val, mc.val),
                      portfolio_value),
          rng |-> mc.rng]

\* monte_carlo_cvar is called after monte_carlo_var, on the generator state
\* that call left
metrics_after_var(self, hv, hc, pv, pc, mv, portfolio_value, n_simulations, rng) ==
    metrics_result(hv, hc, pv, pc, mv,
                   monte_carlo_cvar(self, n_simulations, mv.rng),
                   portfolio_value, rng)

get_all_metrics(self, portfolio_value, n_simulations, rng) ==
    metrics_after_var(self, historical_var(self), historical_cvar(self),
                      parametric_var(self), parametric_cvar(self),
                      monte_carlo_var(self, n_simulations, rng),
                      portfolio_value, n_simulations, rng)

(***************************************************************************)
(* VaRBacktester (src/src/backtesting.py).                                 *)
(***************************************************************************)
VaRBacktester(returns, var_estimates, confidence_level) ==
    [returns |-> returns,
     var_estimates |-> var_estimates,
     confidence_level |-> confidence_level,
     alpha |-> FSub(Num(1), confidence_level)]

\* number of TRUE entries of a boolean sequence
RECURSIVE CountTrue(_)
CountTrue(b) ==
    IF b = <<>> THEN 0 ELSE (IF Head(b) THEN 1 ELSE 0) + CountTrue(Tail(b))

\* s[mask]: the entries of s where the boolean mask is TRUE
RECURSIVE Masked(_, _)
Masked(s, mask) ==
    IF s = <<>> THEN <<>>
    ELSE (IF Head(mask) THEN <<Head(s)>> ELSE <<>>) \o Masked(Tail(s), Tail(mask))

\* variant: a loss equal to the estimate counts as a violation
get_violations_or_equal(self) ==
    IF self.returns.index # self.var_estimates.index THEN Raise("ValueError")
    ELSE Ok(Series(self.returns.index,
                   [k \in 1..SeriesLen(self.returns) |->
                       FGeq(FNeg(self.returns.values[k]), self.var_estimates.values[k])]))

\* comparing two Series needs identical labels; the result carries them
get_violations(self) ==
    IF self.returns.index # self.var_estimates.index THEN Raise("ValueError")
    ELSE LET losses == [k \in 1..SeriesLen(self.returns) |-> FNeg(self.returns.values[k])]
         IN Ok(Series(self.returns.index,
                      [k \in 1..SeriesLen(self.returns) |->
                          FGreater(losses[k], self.var_estimates.values[k])]))

\* variant: only the case of no violation at all
kupiec_degenerate_none_only(n_violations, n_obs) == n_violations = 0

\* the branch of kupiec_test that sets the statistic without taking logarithms
kupiec_degenerate(n_violations, n_obs) == n_violations = 0 \/ n_violations = n_obs

NoKupiec == [n_violations |-> 0, n_observations |-> 0, violation_rate |-> NaN,
             expected_rate |-> NaN, lr_statistic |-> NaN, p_value |-> NaN,
             reject_null |-> FALSE]

kupiec_test(self) ==
    LET violations == get_violations(self)
        n_violations == CountTrue(violations.val.values)
        n_obs == Len(violations.val.values)
        violation_rate == FDiv(Num(n_violations), Num(n_obs))
        expected_rate == self.alpha
        degenerate == kupiec_degenerate(n_violations, n_obs)
        lr_stat ==
            IF degenerate THEN Num(0)
            ELSE FMul(Num(-2),
                   FSub(FSub(FAdd(FMul(Num(n_violations), Ln(expected_rate)),
                                  FMul(Num(n_obs - n_violations),
                                       Ln(FSub(Num(1), expected_rate)))),
                             FMul(Num(n_violations), Ln(violation_rate))),
                        FMul(Num(n_obs - n_violations),
                             Ln(FSub(Num(1), violation_rate)))))
        p_value == IF degenerate THEN Num(1) ELSE FSub(Num(1), Chi2Cdf(lr_stat))
    IN IF violations.exc # "none" THEN [exc |-> violations.exc, val |-> NoKupiec]
       ELSE Ok([n_violations |-> n_violations,
                n_observations |-> n_obs,
                violation_rate |-> violation_rate,
                expected_rate |-> expected_rate,
                lr_statistic |-> lr_stat,
                p_value |-> p_value,
                reject_null |-> FLess(p_value, Rat(5, 100))])

calculate_avg_exceedance(self) ==
    LET violations == get_violations(self)
        losses == [k \in 1..SeriesLen(self.returns) |-> FNeg(self.returns.values[k])]
        exceedances ==
            [k \in 1..SeriesLen(self.returns) |->
                FSub(losses[k], self.var_estimates.values[k])]
    IN IF violations.exc # "none" THEN violations
       ELSE IF CountTrue(violations.val.values) = 0 THEN Ok(Num(0))
       ELSE Ok(Mean(Masked(exceedances, violations.val.values)))

(***************************************************************************)
(* State.                                                                  *)
(***************************************************************************)
VARIABLES
    np_random,   \* state of numpy's global generator (np.random)
    portfolio,   \* outcome of Portfolio(returns, weights): [exc, val]
    calc,        \* the RiskCalculator object
    backtester,  \* the VaRBacktester object
    frame,       \* locals of the rolling_var_backtest call in progress
    ret          \* what the last completed call returned or raised

vars == <<np_random, portfolio, calc, backtester, frame, ret>>

\* the inputs
Dates(L) == [k \in 1..L |-> k]
ReturnNums == {Num(r) : r \in ReturnValues}
ConfidenceLevels == {Rat(c, 100) : c \in ConfPercents}
EmptySeries == Series(<<>>, <<>>)

Returned(op, args, r) == [op |-> op, args |-> args, exc |-> r.exc, val |-> r.val]
NoCall == [op |-> "none", args |-> <<>>, exc |-> "none", val |-> NaN]

(***************************************************************************)
(* Calls on a RiskCalculator.                                              *)
(***************************************************************************)
Call_historical_var ==
    /\ ret' = Returned("historical_var", <<>>, historical_var(calc))
    /\ UNCHANGED <<np_random, portfolio, calc, backtester, frame>>

Call_historical_cvar ==
    /\ ret' = Returned("historical_cvar", <<>>, historical_cvar(calc))
    /\ UNCHANGED <<np_random, portfolio, calc, backtester, frame>>

Call_parametric_var ==
    /\ ret' = Returned("parametric_var", <<>>, parametric_var(calc))
    /\ UNCHANGED <<np_random, portfolio, calc, backtester, frame>>

Call_parametric_cvar ==
    /\ ret' = Returned("parametric_cvar", <<>>, parametric_cvar(calc))
    /\ UNCHANGED <<np_random, portfolio, calc, backtester, frame>>

Call_monte_carlo_var ==
    \E n \in 1..MaxSims :
        LET r == monte_carlo_var(calc, n, np_random)
        IN /\ ret' = Returned("monte_carlo_var", <<n>>, r)
           /\ np_random' = r.rng
           /\ UNCHANGED <<portfolio, calc, backtester, frame>>

Call_monte_carlo_cvar ==
    \E n \in 1..MaxSims :
        LET r == monte_carlo_cvar(calc, n, np_random)
        IN /\ ret' = Returned("monte_carlo_cvar", <<n>>, r)
           /\ np_random' = r.rng
           /\ UNCHANGED <<portfolio, calc, backtester, frame>>

Call_get_all_metrics ==
    \E pv \in PortfolioValues, n \in 1..MaxSims :
        LET r == get_all_metrics(calc, pv, n, np_random)
        IN /\ ret' = Returned("get_all_metrics", <<pv, n>>, r)
           /\ np_random' = r.rng
           /\ UNCHANGED <<portfolio, calc, backtester, frame>>

\* no rolling_var_backtest call in progress; var is the loop's local, bound
\* by the first branch of the method dispatch that runs
NoFrame == [pc |-> "idle", window |-> 0, method |-> "", i |-> 0,
            var_bound |-> FALSE, var |-> NaN,
            var_estimates |-> <<>>, actual_returns |-> <<>>]
NoBacktester == [returns |-> EmptySeries, var_estimates |-> EmptySeries,
                 confidence_level |-> Rat(95, 100), alpha |-> Rat(5, 100)]
NoCalc == [returns |-> EmptySeries, confidence_level |-> Rat(95, 100),
           alpha |-> Rat(5, 100)]
NoPortfolio == [exc |-> "none",
                val |-> [returns |-> [columns |-> <<>>, rows |-> <<>>],
                         assets |-> <<>>, n_assets |-> 0, weights |-> <<>>]]

\* a calculator over any return series and any confidence level
InitRisk ==
    /\ np_random \in RngStates
    /\ \E L \in 0..MaxLen : \E v \in [1..L -> ReturnNums] : \E c \in ConfidenceLevels :
           calc = RiskCalculator(Series(Dates(L), v), c)
    /\ backtester = NoBacktester
    /\ portfolio = NoPortfolio
    /\ frame = NoFrame
    /\ ret = NoCall

NextRisk ==
    \/ Call_historical_var
    \/ Call_historical_cvar
    \/ Call_parametric_var
    \/ Call_parametric_cvar

SpecRisk == InitRisk /\ [][NextRisk]_vars

\* a calculator whose Monte Carlo methods and get_all_metrics are called
InitMC ==
    /\ np_random \in RngStates
    /\ \E L \in 0..MaxMCLen : \E v \in [1..L -> ReturnNums] : \E c \in ConfidenceLevels :
           calc = RiskCalculator(Series(Dates(L), v), c)
    /\ backtester = NoBacktester
    /\ portfolio = NoPortfolio
    /\ frame = NoFrame
    /\ ret = NoCall

NextMC ==
    \/ Call_monte_carlo_var
    \/ Call_monte_carlo_cvar

SpecMC == InitMC /\ [][NextMC]_vars

\* the same calculators, asked for all their metrics
NextAll == Call_get_all_metrics

SpecAll == InitMC /\ [][NextAll]_vars

(***************************************************************************)
(* Calls on a VaRBacktester.                                               *)
(***************************************************************************)
Call_get_violations ==
    /\ frame.pc = "idle"
    /\ ret' = Returned("get_violations", <<>>, get_violations(backtester))
    /\ UNCHANGED <<np_random, portfolio, calc, backtester, frame>>

Call_kupiec_test ==
    /\ frame.pc = "idle"
    /\ ret' = Returned("kupiec_test", <<>>, kupiec_test(backtester))
    /\ UNCHANGED <<np_random, portfolio, calc, backtester, frame>>

Call_calculate_avg_exceedance ==
    /\ frame.pc = "idle"
    /\ ret' = Returned("calculate_avg_exceedance", <<>>,
                       calculate_avg_exceedance(backtester))
    /\ UNCHANGED <<np_random, portfolio, calc, backtester, frame>>

\* method names handed to rolling_var_backtest: the three it knows and another
Methods == {"historical", "parametric", "monte_carlo", "bootstrap"}
\* window sizes handed to rolling_var_backtest
Windows == 0..(MaxLen + 1)

\* rolling_var_backtest, entry: the two empty lists and range(window, len)
rolling_var_backtest_enter ==
    /\ frame.pc = "idle"
    /\ \E window \in Windows, method \in Methods :
           frame' = [pc |-> "loop", window |-> window, method |-> method,
                     i |-> window, var_bound |-> FALSE, var |-> NaN,
                     var_estimates |-> <<>>, actual_returns |-> <<>>]
    /\ ret' = NoCall
    /\ UNCHANGED <<np_random, portfolio, calc, backtester>>

\* variant: a method name that is not known falls back to the historical VaR
rolling_var_fallback(method, c, rng, f) ==
    IF method = "parametric"
      THEN [bound |-> TRUE, r |-> parametric_var(c), rng |-> rng]
    ELSE IF method = "monte_carlo"
      THEN LET m == monte_carlo_var(c, NSimDefault, rng)
           IN [bound |-> TRUE, r |-> [exc |-> m.exc, val |-> m.val], rng |-> m.rng]
    ELSE [bound |-> TRUE, r |-> historical_var(c), rng |-> rng]

\* the VaR the loop body computes at position i, by the method's branch;
\* no branch runs for an unknown method and var keeps what it had
rolling_var(method, c, rng, f) ==
    IF method = "historical"
      THEN [bound |-> TRUE, r |-> historical_var(c), rng |-> rng]
    ELSE IF method = "parametric"
      THEN [bound |-> TRUE, r |-> parametric_var(c), rng |-> rng]
    ELSE IF method = "monte_carlo"
      THEN LET m == monte_carlo_var(c, NSimDefault, rng)
           IN [bound |-> TRUE, r |-> [exc |-> m.exc, val |-> m.val], rng |-> m.rng]
    ELSE [bound |-> f.var_bound, r |-> Ok(f.var), rng |-> rng]

\* variant: a window that ends with day i itself
window_returns_lookahead(returns, i, window) ==
    SeriesSlice(returns, i - window + 1, i + 1)

\* the window of returns the loop body hands to the calculator at position i
window_returns(returns, i, window) == SeriesSlice(returns, i - window, i)

\* one iteration of the loop body
rolling_var_backtest_iterate ==
    /\ frame.pc = "loop"
    /\ frame.i < SeriesLen(backtester.returns)
    /\ LET c == RiskCalculator(
                    window_returns(backtester.returns, frame.i, frame.window),
                    backtester.confidence_level)
           v == rolling_var(frame.method, c, np_random, frame)
       IN /\ np_random' = v.rng
          /\ IF v.r.exc # "none"
               THEN /\ ret' = Returned("rolling_var_backtest",
                                       <<frame.window, frame.method>>, v.r)
                    /\ frame' = NoFrame
             ELSE IF ~v.bound
               THEN /\ ret' = Returned("rolling_var_backtest",
                                       <<frame.window, frame.method>>,
                                       Raise("UnboundLocalError"))
                    /\ frame' = NoFrame
             ELSE /\ ret' = ret
                  /\ frame' = [frame EXCEPT
                        !.i = frame.i + 1,
                        !.var_bound = TRUE,
                        !.var = v.r.val,
                        !.var_estimates = Append(frame.var_estimates, v.r.val),
                        !.actual_returns =
                            Append(frame.actual_returns,
                                   backtester.returns.values[frame.i + 1])]
    /\ UNCHANGED <<portfolio, calc, backtester>>

\* variant: the labels of the first len - window dates
result_index_from_start(returns, window) ==
    PySlice(returns.index, 0, SeriesLen(returns) - window)

\* self.returns.index[window:], the labels of the two results
result_index(returns, window) == PySlice(returns.index, window, SeriesLen(returns))

\* pd.Series(data, index=index): the lengths must agree
NewSeries(data, index) ==
    IF Len(data) # Len(index) THEN Raise("ValueError") ELSE Ok(Series(index, data))

\* the loop is over: the two lists become Series indexed by index[window:]
rolling_var_backtest_return ==
    /\ frame.pc = "loop"
    /\ frame.i >= SeriesLen(backtester.returns)
    /\ LET index == result_index(backtester.returns, frame.window)
           ve == NewSeries(frame.var_estimates, index)
           ar == NewSeries(frame.actual_returns, index)
       IN ret' = Returned("rolling_var_backtest", <<frame.window, frame.method>>,
                    IF ve.exc # "none" THEN Raise(ve.exc)
                    ELSE IF ar.exc # "none" THEN Raise(ar.exc)
                    ELSE Ok([var_estimates |-> ve.val, actual_returns |-> ar.val]))
    /\ frame' = NoFrame
    /\ UNCHANGED <<np_random, portfolio, calc, backtester>>

\* VaR estimates handed to a VaRBacktester, as positive losses in percent
VarValues == {1, 3}
VarNums == {Num(e) : e \in VarValues}

\* a backtester over any return series, any aligned estimate series and any
\* confidence level
InitBT ==
    /\ np_random \in RngStates
    /\ \E L \in 0..MaxLen : \E v \in [1..L -> ReturnNums], e \in [1..L -> VarNums] :
         \E c \in ConfidenceLevels :
           backtester = VaRBacktester(Series(Dates(L), v), Series(Dates(L), e), c)
    /\ calc = NoCalc
    /\ portfolio = NoPortfolio
    /\ frame = NoFrame
    /\ ret = NoCall

NextBT ==
    \/ Call_get_violations
    \/ Call_kupiec_test
    \/ Call_calculate_avg_exceedance

SpecBT == InitBT /\ [][NextBT]_vars

\* a backtester whose rolling backtest is run; the estimate series handed to
\* the constructor is the constant one of app.py
InitRoll ==
    /\ np_random \in RngStates
    /\ \E L \in 0..MaxLen : \E v \in [1..L -> ReturnNums] : \E c \in ConfidenceLevels :
           backtester = VaRBacktester(Series(Dates(L), v),
                                      Series(Dates(L), [k \in 1..L |-> Num(1)]), c)
    /\ calc = NoCalc
    /\ portfolio = NoPortfolio
    /\ frame = NoFrame
    /\ ret = NoCall

NextRoll ==
    \/ rolling_var_backtest_enter
    \/ rolling_var_backtest_iterate
    \/ rolling_var_backtest_return

SpecRoll == InitRoll /\ [][NextRoll]_vars

(***************************************************************************)
(* Calls on a Portfolio.                                                   *)
(***************************************************************************)
Call_portfolio_returns ==
    /\ portfolio.exc = "none"
    /\ ret' = Returned("portfolio_returns", <<>>, portfolio_returns(portfolio.val))
    /\ UNCHANGED <<np_random, portfolio, calc, backtester, frame>>

\* asset returns of a DataFrame cell, and the dates of a frame
CellNums == {Num(-1), Num(2)}
FrameDates == 1..2
\* weights handed to Portfolio: a grid of quarters, and two vectors of one
\* weight just inside and just outside the tolerance of np.isclose
WeightNums == {Num(0), Rat(1, 4), Rat(1, 2), Num(1)}
NearOne == {<<Rat(100001, 100000)>>, <<Rat(50001, 50000)>>}
Assets(n) == [k \in 1..n |-> k]

\* Portfolio(returns, weights) was called on a frame of 1..MaxAssets columns,
\* without weights or with a weight vector of any length up to MaxAssets + 1
InitPortfolio ==
    /\ np_random \in RngStates
    /\ \E n \in 1..MaxAssets : \E rows \in [FrameDates -> [1..n -> CellNums]] :
         LET returns == [columns |-> Assets(n), rows |-> rows]
         IN \/ portfolio = Portfolio(returns, [given |-> FALSE, w |-> <<>>])
            \/ \E m \in 0..(MaxAssets + 1) : \E w \in [1..m -> WeightNums] :
                  portfolio = Portfolio(returns, [given |-> TRUE, w |-> w])
            \/ \E w \in NearOne :
                  portfolio = Portfolio(returns, [given |-> TRUE, w |-> w])
    /\ calc = NoCalc
    /\ backtester = NoBacktester
    /\ frame = NoFrame
    /\ ret = NoCall

NextPortfolio == Call_portfolio_returns

SpecPortfolio == InitPortfolio /\ [][NextPortfolio]_vars

(***************************************************************************)
(* Properties.                                                             *)
(***************************************************************************)
KnownMethods == {"historical", "parametric", "monte_carlo"}
\* a confidence level of the open interval (0, 1)
ValidConfidence(c) == FLess(Num(0), c) /\ FLess(c, Num(1))

\* C1: for a series of length L, a window 0 < W < L and each of the three
\* methods, rolling_var_backtest returns (with a confidence level in (0,1) it
\* always does) two series of length L - W, both labelled date[W], ...,
\* date[L-1] in that order, with actual_returns[k] = returns[W + k].
C1_RollingShape ==
    (/\ ret.op = "rolling_var_backtest"
     /\ ret.args[2] \in KnownMethods
     /\ 0 < ret.args[1]
     /\ ret.args[1] < SeriesLen(backtester.returns))
    => LET W == ret.args[1]
           L == SeriesLen(backtester.returns)
           dates == [k \in 1..(L - W) |-> backtester.returns.index[W + k]]
       IN /\ ValidConfidence(backtester.confidence_level) => ret.exc = "none"
          /\ ret.exc = "none" =>
               /\ Len(ret.val.var_estimates.values) = L - W
               /\ Len(ret.val.actual_returns.values) = L - W
               /\ ret.val.var_estimates.index = dates
               /\ ret.val.actual_returns.index = dates
               /\ \A k \in 0..(L - W - 1) :
                     ret.val.actual_returns.values[k + 1]
                         = backtester.returns.values[W + k + 1]

\* a backtest over three dates with window 1 has returned its two estimates
C1_Witness ==
    /\ ret.op = "rolling_var_backtest"
    /\ ret.exc = "none"
    /\ ret.args[1] = 1
    /\ ret.args[2] = "monte_carlo"
    /\ SeriesLen(backtester.returns) = 3
    /\ Len(ret.val.var_estimates.values) = 2

\* the estimate the loop body computes for position i of a return series
EstimateAt(returns, i, window, method, confidence_level) ==
    rolling_var(method,
                RiskCalculator(window_returns(returns, i, window), confidence_level),
                0, NoFrame).r

\* the series with the value of its j-th date replaced by x
Alter(s, j, x) == Series(s.index, [s.values EXCEPT ![j] = x])

\* C2: the estimate paired with day i is the method's VaR of the window
\* returns[i-window], ..., returns[i-1] and of nothing else: replacing the
\* return of any one date outside that window (day i itself, a later or an
\* earlier date) leaves the estimate for day i as it is (historical and
\* parametric method).  Every return series is an initial state, so the
\* single replacements chain to any two series that agree on the window.
C2_OutOfSample ==
    (/\ frame.pc = "loop"
     /\ frame.method \in {"historical", "parametric"}
     /\ frame.var_estimates # <<>>)
    => LET W == frame.window
           i == frame.i - 1
           L == SeriesLen(backtester.returns)
           estimate == frame.var_estimates[Len(frame.var_estimates)]
           observed == Series([k \in 1..W |-> backtester.returns.index[i - W + k]],
                              [k \in 1..W |-> backtester.returns.values[i - W + k]])
           of_window == RiskCalculator(observed, backtester.confidence_level)
       IN /\ estimate = (IF frame.method = "historical"
                           THEN historical_var(of_window).val
                           ELSE parametric_var(of_window).val)
          /\ \A j \in (1..L) \ ((i - W + 1)..i) : \A x \in ReturnNums :
                EstimateAt(Alter(backtester.returns, j, x), i, W, frame.method,
                           backtester.confidence_level).val = estimate

\* the second estimate of a window-1 historical backtest over three dates has
\* been computed: an earlier date and day i itself lie outside its window
C2_Witness ==
    /\ frame.pc = "loop"
    /\ frame.method = "historical"
    /\ frame.window = 1
    /\ SeriesLen(backtester.returns) = 3
    /\ Len(frame.var_estimates) = 2
    /\ frame.var_estimates[1] # frame.var_estimates[2]
    /\ backtester.returns.values[3] # backtester.returns.values[2]

\* the dates of the backtester whose loss exceeds the estimate, in integers
\* (returns and estimates are whole percents)
ViolationDates ==
    {k \in 1..SeriesLen(backtester.returns) :
        -(backtester.returns.values[k].n) > backtester.var_estimates.values[k].n}

\* C3: get_violations returns one boolean per date, TRUE exactly when the
\* negated return is strictly greater than the VaR estimate of that date (a
\* loss equal to the estimate is no violation); the result is as long as the
\* return series and carries its dates.
C3_Violations ==
    ret.op = "get_violations"
    => /\ ret.exc = "none"
       /\ Len(ret.val.values) = SeriesLen(backtester.returns)
       /\ ret.val.index = backtester.returns.index
       /\ \A k \in 1..SeriesLen(backtester.returns) :
             ret.val.values[k] = (k \in ViolationDates)

\* get_violations has returned for a series with a date whose loss equals
\* its estimate and a date whose loss exceeds it
C3_Witness ==
    /\ ret.op = "get_violations"
    /\ \E k \in 1..SeriesLen(backtester.returns) :
          /\ FNeg(backtester.returns.values[k]) = backtester.var_estimates.values[k]
          /\ ret.val.values[k] = FALSE
    /\ \E k \in 1..SeriesLen(backtester.returns) : ret.val.values[k] = TRUE

\* C4: with x violations among n >= 1 observations, kupiec_test returns
\* n_violations = x, n_observations = n, violation_rate = x/n and
\* expected_rate = alpha; when x = 0 or x = n it takes the degenerate branch:
\* lr_statistic = 0, p_value = 1, reject_null = FALSE; when 0 < x < n it does
\* not: p_value = 1 - chi2.cdf(lr_statistic) and reject_null is TRUE exactly
\* when p_value < 0.05.
C4_Kupiec ==
    (ret.op = "kupiec_test" /\ SeriesLen(backtester.returns) >= 1)
    => LET x == Cardinality(ViolationDates)
           n == SeriesLen(backtester.returns)
           r == ret.val
       IN /\ ret.exc = "none"
          /\ r.n_violations = x
          /\ r.n_observations = n
          /\ r.violation_rate = Rat(x, n)
          /\ r.expected_rate = FSub(Num(1), backtester.confidence_level)
          /\ (x = 0 \/ x = n) =>
                /\ kupiec_degenerate(r.n_violations, r.n_observations)
                /\ r.lr_statistic = Num(0)
                /\ r.p_value = Num(1)
                /\ r.reject_null = FALSE
          /\ (0 < x /\ x < n) =>
                /\ ~kupiec_degenerate(r.n_violations, r.n_observations)
                /\ r.p_value = FSub(Num(1), Chi2Cdf(r.lr_statistic))
                /\ r.reject_null = FLess(r.p_value, Rat(5, 100))

\* kupiec_test has returned for a series of at least two dates, each of them
\* a violation
C4_Witness ==
    /\ ret.op = "kupiec_test"
    /\ SeriesLen(backtester.returns) >= 2
    /\ Cardinality(ViolationDates) = SeriesLen(backtester.returns)
    /\ ret.val.p_value = Num(1)

NonDegenerate(returns) ==
    LET sigma == Std(returns.values) IN IsFinite(sigma) /\ sigma.n > 0

\* C6: in every result of a get_all_metrics call on a non-degenerate series
\* (confidence level in (0,1)), the Monte Carlo CVaR is at least the Monte
\* Carlo VaR reported with it, whatever the sampler draws.
C6_MonteCarloCVaRAtLeastVaR ==
    (/\ ret.op = "get_all_metrics"
     /\ ret.exc = "none"
     /\ ValidConfidence(calc.confidence_level)
     /\ NonDegenerate(calc.returns))
    => FGeq(ret.val.metrics["Monte Carlo CVaR"], ret.val.metrics["Monte Carlo VaR"])

\* C7: two invocations of monte_carlo_var (or of monte_carlo_cvar) on the
\* same calculator with the same n_simulations, in a process that seeded the
\* generator once, return the same value.
C7_MonteCarloReproducible ==
    [][(/\ ret.op \in {"monte_carlo_var", "monte_carlo_cvar"}
        /\ ret'.op = ret.op
        /\ ret'.args = ret.args
        /\ ret.exc = "none"
        /\ ret'.exc = "none"
        /\ ValidConfidence(calc.confidence_level))
       => ret'.val = ret.val]_vars

\* C8: a Portfolio that was constructed holds exactly n_assets weights that
\* sum to 1 within tolerance (construction fails otherwise), and
\* portfolio_returns never runs with another number of weights.
C8_WeightsMatchAssets ==
    /\ portfolio.exc = "none" =>
          /\ Len(portfolio.val.weights) = portfolio.val.n_assets
          /\ IsClose(FSum(portfolio.val.weights), Num(1))
    /\ ret.op = "portfolio_returns" =>
          Len(portfolio.val.weights) = portfolio.val.n_assets

\* C9: rolling_var_backtest called with a window that is at least the length
\* of the return series raises an error; it returns no result.
C9_WindowTooLargeRaises ==
    (/\ ret.op = "rolling_var_backtest"
     /\ ret.args[1] >= SeriesLen(backtester.returns))
    => ret.exc # "none"

CalculatorOps == {"historical_var", "historical_cvar", "parametric_var",
                  "parametric_cvar", "monte_carlo_var", "monte_carlo_cvar",
                  "get_all_metrics"}
BacktesterOps == {"get_violations", "kupiec_test", "calculate_avg_exceedance",
                  "rolling_var_backtest"}

\* C10: no VaR/CVaR method and no backtester method returns a value unless
\* the confidence level of its object lies in the open interval (0,1).
C10_ConfidenceValidated ==
    /\ (ret.op \in CalculatorOps /\ ret.exc = "none")
          => ValidConfidence(calc.confidence_level)
    /\ (ret.op \in BacktesterOps /\ ret.exc = "none")
          => ValidConfidence(backtester.confidence_level)

\* the observations of the calculator at or below the signed VaR threshold
HistoricalTail ==
    SelectLeq(calc.returns.values, FNeg(historical_var(calc).val))

\* C11: for a non-empty return series and a confidence level in (0,1),
\* historical_cvar returns a defined number: a finite value, the negated mean
\* of a tail that is never empty (an observation always lies at or below the
\* signed VaR threshold, so no fallback is ever needed).
C11_HistoricalCVaRDefined ==
    (/\ ret.op = "historical_cvar"
     /\ SeriesLen(calc.returns) >= 1
     /\ ValidConfidence(calc.confidence_level))
    => /\ ret.exc = "none"
       /\ IsFinite(ret.val)
       /\ HistoricalTail # <<>>
       /\ ret.val = FNeg(Mean(HistoricalTail))

\* historical_cvar has returned for three observations, all of them gains,
\* whose tail is the single smallest one
C11_Witness ==
    /\ ret.op = "historical_cvar"
    /\ SeriesLen(calc.returns) = 3
    /\ ValidConfidence(calc.confidence_level)
    /\ \A k \in 1..3 : calc.returns.values[k].n >= 0
    /\ Len(HistoricalTail) = 1
    /\ IsFinite(ret.val)

\* C12: get_all_metrics returns two mappings over the same six keys, and for
\* every key the dollar value is the value reported in metrics multiplied by
\* portfolio_value.
C12_DollarScaling ==
    (ret.op = "get_all_metrics" /\ ret.exc = "none")
    => /\ DOMAIN ret.val.metrics = MetricKeys
       /\ DOMAIN ret.val.dollar_metrics = MetricKeys
       /\ \A k \in MetricKeys :
             ret.val.dollar_metrics[k] = FMul(ret.val.metrics[k], Num(ret.args[1]))

\* get_all_metrics has returned for a portfolio value of 1000 a Monte Carlo
\* VaR that is a non-zero number, and its dollar value differs from it
C12_Witness ==
    /\ ret.op = "get_all_metrics"
    /\ ret.exc = "none"
    /\ ret.args[1] = 1000
    /\ IsFinite(ret.val.metrics["Monte Carlo VaR"])
    /\ ret.val.metrics["Monte Carlo VaR"].n # 0
    /\ ret.val.dollar_metrics["Monte Carlo VaR"] # ret.val.metrics["Monte Carlo VaR"]

\* C13: no operation of a RiskCalculator or a VaRBacktester changes state
\* that is visible outside the call: the stored series, the confidence level
\* and alpha of either object stay as they are, and so does the state of the
\* random source that other callers draw from.
C13_NoSideEffects ==
    [][/\ calc' = calc
       /\ backtester' = backtester
       /\ np_random' = np_random]_vars

\* C14: rolling_var_backtest with a method name that is not one of the three
\* and a window smaller than the series length returns no estimates: while
\* the call is in progress nothing has been appended to either output list,
\* and the step it takes is its first iteration, which raises (the local var
\* is unbound) and ends the call.
C14_UnknownMethodRaises ==
    [][(/\ frame.pc = "loop"
        /\ frame.method \notin KnownMethods
        /\ frame.window < SeriesLen(backtester.returns))
       => /\ frame.i = frame.window
          /\ frame.var_estimates = <<>>
          /\ frame.actual_returns = <<>>
          /\ frame'.pc = "idle"
          /\ ret'.op = "rolling_var_backtest"
          /\ ret'.args = <<frame.window, frame.method>>
          /\ ret'.exc = "UnboundLocalError"]_vars

\* a backtest over three dates with window 1 and an unknown method has raised
C14_Witness ==
    /\ ret.op = "rolling_var_backtest"
    /\ ret.args[2] = "bootstrap"
    /\ ret.args[1] = 1
    /\ SeriesLen(backtester.returns) = 3
    /\ ret.exc = "UnboundLocalError"
    /\ frame.pc = "idle"

====
